---- MODULE Spec2Model ----
(***************************************************************************)
(* Model of the two client-side pipelines of the site:                     *)
(*   publications.js  (class BibtexParser)   fetch extras/pub.bib, parse   *)
(*                    the BibTeX text, render, filter by legend badge      *)
(*   teaching.js      (class TeachingParser) fetch extras/courses.csv,     *)
(*                    parse the CSV text, render                           *)
(* Text is a sequence of one-character strings, so that splitting,         *)
(* trimming, the two regular expressions of parseEntry and the scanner of  *)
(* parseCSVLine are computed character by character as the code does.      *)
(***************************************************************************)
EXTENDS Integers, Sequences, FiniteSets

VARIABLES
    \* ---- BibtexParser and the #publications part of the page
    pubPc,          \* position of loadPublications
    pubContainer,   \* document.getElementById('publications') is not null
    pubFetch,       \* what happened to fetch('extras/pub.bib')
    bibtexContent,  \* the text of the response
    publications,   \* this.publications
    activeFilters,  \* this.activeFilters
    pubCalls,       \* number of fetch / parseBibtex calls made so far
    pubDom,         \* what the container shows
    \* ---- TeachingParser and the #teaching part of the page
    teachPc,
    teachContainer,
    teachFetch,
    csvContent,
    activities,     \* this.activities
    teachCalls,
    teachDom,
    \* ---- one call of a parsing function on a text (specification SpecParsers)
    fn,             \* the function called
    arg,            \* its argument
    frame,          \* parseCSVLine's locals while it runs: i, values, current, inQuotes
    ret             \* the returned value once the call has returned

pubVars == <<pubPc, pubContainer, pubFetch, bibtexContent, publications, activeFilters,
             pubCalls, pubDom>>

teachVars == <<teachPc, teachContainer, teachFetch, csvContent, activities, teachCalls,
               teachDom>>

callVars == <<fn, arg, frame, ret>>

vars == <<pubVars, teachVars, callVars>>

----------------------------------------------------------------------------
(* Characters and the String methods the code uses *)

LowerLetters ==
    <<"a", "b", "c", "d", "e", "f", "g", "h", "i", "j", "k", "l", "m", "n", "o",
      "p", "q", "r", "s", "t", "u", "v", "w", "x", "y", "z">>

UpperLetters ==
    <<"A", "B", "C", "D", "E", "F", "G", "H", "I", "J", "K", "L", "M", "N", "O",
      "P", "Q", "R", "S", "T", "U", "V", "W", "X", "Y", "Z">>

DigitChars ==
    <<"0", "1", "2", "3", "4", "5", "6", "7", "8", "9", "a", "b", "c", "d", "e",
      "f">>

Range(s) == {s[i] : i \in DOMAIN s}

\* \w of a JavaScript regular expression: [A-Za-z0-9_]
WordChars ==
    Range(LowerLetters) \cup Range(UpperLetters)
        \cup {"0", "1", "2", "3", "4", "5", "6", "7", "8", "9", "_"}

\* \s of a regular expression and the white space of trim(), restricted to
\* the white space that occurs in the texts of this model
SpaceChars == {" ", "\n", "\t", "\r"}

IndexOf(c, s) == CHOOSE i \in DOMAIN s : s[i] = c

toLowerCaseChar(c) ==
    IF c \in Range(UpperLetters) THEN LowerLetters[IndexOf(c, UpperLetters)] ELSE c

toLowerCase(s) == [i \in DOMAIN s |-> toLowerCaseChar(s[i])]

\* last index of the longest run of characters of set starting at i (i - 1 if none)
RunEnd(s, i, set) ==
    CHOOSE j \in (i - 1)..Len(s) :
        /\ \A k \in i..j : s[k] \in set
        /\ j = Len(s) \/ s[j + 1] \notin set

\* the same for the negated class [^c]
RunEndNot(s, i, c) ==
    CHOOSE j \in (i - 1)..Len(s) :
        /\ \A k \in i..j : s[k] # c
        /\ j = Len(s) \/ s[j + 1] = c

\* s.split(sep) for a one-character separator: always at least one piece
split(s, sep) ==
    LET at == {i \in DOMAIN s : s[i] = sep}
        \* position of the k-th separator; 0 and Len(s) + 1 bound the text
        pos(k) == IF k = 0 THEN 0
                  ELSE IF k > Cardinality(at) THEN Len(s) + 1
                  ELSE CHOOSE p \in at : Cardinality({q \in at : q < p}) = k - 1
    IN  [k \in 1..(Cardinality(at) + 1) |-> SubSeq(s, pos(k - 1) + 1, pos(k) - 1)]

trim(s) ==
    LET first == RunEnd(s, 1, SpaceChars) + 1
        last == CHOOSE j \in 0..Len(s) :
                    /\ j = 0 \/ s[j] \notin SpaceChars
                    /\ \A k \in (j + 1)..Len(s) : s[k] \in SpaceChars
    IN  IF first > Len(s) THEN <<>> ELSE SubSeq(s, first, last)

\* text.replace(/\s+/g, ' ').trim()
RECURSIVE collapseSpaces(_, _)
collapseSpaces(text, i) ==
    IF i > Len(text) THEN <<>>
    ELSE IF text[i] \in SpaceChars
         THEN <<" ">> \o collapseSpaces(text, RunEnd(text, i, SpaceChars) + 1)
         ELSE <<text[i]>> \o collapseSpaces(text, i + 1)

cleanField(text) == trim(collapseSpaces(text, 1))

----------------------------------------------------------------------------
(* parseInt(x) || 0 and the sort by year, shared by the two parsers *)

K_type == <<"t", "y", "p", "e">>

K_key == <<"k", "e", "y">>

K_year == <<"y", "e", "a", "r">>

NaN == [nan |-> TRUE, val |-> 0]

\* value of the longest prefix of s[i..] made of digits of the radix, from acc
RECURSIVE digitsValue(_, _, _, _)
digitsValue(s, i, radix, acc) ==
    IF /\ i <= Len(s)
       /\ toLowerCaseChar(s[i]) \in Range(DigitChars)
       /\ IndexOf(toLowerCaseChar(s[i]), DigitChars) - 1 < radix
    THEN digitsValue(s, i + 1, radix,
                     acc * radix + IndexOf(toLowerCaseChar(s[i]), DigitChars) - 1)
    ELSE [nan |-> FALSE, val |-> acc, next |-> i]

\* parseInt(string) with no radix: leading white space, a sign, a 0x prefix, then
\* the longest run of digits; NaN when there is no digit
parseInt(string) ==
    LET start == RunEnd(string, 1, SpaceChars) + 1
        signed == start <= Len(string) /\ string[start] \in {"+", "-"}
        negative == signed /\ string[start] = "-"
        d == IF signed THEN start + 1 ELSE start
        hex == /\ d + 1 <= Len(string)
               /\ string[d] = "0"
               /\ string[d + 1] \in {"x", "X"}
        from == IF hex THEN d + 2 ELSE d
        n == digitsValue(string, from, IF hex THEN 16 ELSE 10, 0)
    IN  IF n.next = from THEN NaN
        ELSE [nan |-> FALSE, val |-> IF negative THEN 0 - n.val ELSE n.val]

\* parseInt(record.year) || 0: a record without year gives parseInt(undefined)
numericYear(record) ==
    LET n == IF K_year \in DOMAIN record THEN parseInt(record[K_year]) ELSE NaN
    IN  IF n.nan THEN 0 ELSE n.val

\* the comparator (a, b) => (parseInt(b.year) || 0) - (parseInt(a.year) || 0)
compareYear(a, b) == numericYear(b) - numericYear(a)

\* Array.prototype.sort is stable: x goes after every element that does not
\* compare greater than it
RECURSIVE insertSortedUnstable(_, _)
insertSortedUnstable(sorted, x) ==
    IF sorted = <<>> THEN <<x>>
    ELSE IF compareYear(Head(sorted), x) < 0
         THEN <<Head(sorted)>> \o insertSortedUnstable(Tail(sorted), x)
         ELSE <<x>> \o sorted

RECURSIVE insertSorted(_, _)
insertSorted(sorted, x) ==
    IF sorted = <<>> THEN <<x>>
    ELSE IF compareYear(Head(sorted), x) <= 0
         THEN <<Head(sorted)>> \o insertSorted(Tail(sorted), x)
         ELSE <<x>> \o sorted

RECURSIVE sortFrom(_, _, _)
sortFrom(array, i, sorted) ==
    IF i > Len(array) THEN sorted
    ELSE sortFrom(array, i + 1, insertSorted(sorted, array[i]))

sortByYear(array) == sortFrom(array, 1, <<>>)

----------------------------------------------------------------------------
(* BibtexParser: parseBibtex, parseEntry *)

NoMatch == [matched |-> FALSE]

\* firstLine.match(/^(\w+)\{([^,]+),?/)
typeMatch(firstLine) ==
    LET w == RunEnd(firstLine, 1, WordChars)
        k == RunEndNot(firstLine, w + 2, ",")
    IN  IF /\ w >= 1
           /\ w + 1 <= Len(firstLine)
           /\ firstLine[w + 1] = "{"
           /\ k >= w + 2
        THEN [matched |-> TRUE,
              type |-> SubSeq(firstLine, 1, w),
              key |-> SubSeq(firstLine, w + 2, k)]
        ELSE NoMatch

\* one match of /(\w+)\s*=\s*\{([^}]*(?:\{[^}]*\}[^}]*)*)\}(?:,\s*)?/gs starting
\* at i. [^}]* is greedy and also takes '{', so the first '}' after the opening
\* brace always closes the value: the group for a nested pair never takes part.
fieldMatchAt(entry, i) ==
    LET n == Len(entry)
        j == RunEnd(entry, i, WordChars)
        eq == RunEnd(entry, j + 1, SpaceChars) + 1
        open == RunEnd(entry, eq + 1, SpaceChars) + 1
        close == RunEndNot(entry, open + 1, "}") + 1
        last == IF close + 1 <= n /\ entry[close + 1] = ","
                THEN RunEnd(entry, close + 2, SpaceChars)
                ELSE close
    IN  IF /\ j >= i
           /\ eq <= n /\ entry[eq] = "="
           /\ open <= n /\ entry[open] = "{"
           /\ close <= n
        THEN [matched |-> TRUE,
              field |-> SubSeq(entry, i, j),
              value |-> SubSeq(entry, open + 1, close - 1),
              last |-> last]
        ELSE NoMatch

\* entry.matchAll(...): the matches from left to right, without overlap
RECURSIVE fieldMatches(_, _)
fieldMatches(entry, i) ==
    LET starts == {p \in i..Len(entry) : fieldMatchAt(entry, p).matched}
        first == CHOOSE p \in starts : \A q \in starts : p <= q
        m == fieldMatchAt(entry, first)
    IN  IF starts = {} THEN <<>> ELSE <<m>> \o fieldMatches(entry, m.last + 1)

\* pub[field] = value
setField(pub, field, value) ==
    [k \in DOMAIN pub \cup {field} |-> IF k = field THEN value ELSE pub[k]]

\* the loop over fieldMatches: pub[field.toLowerCase()] = this.cleanField(value)
RECURSIVE assignFields(_, _)
assignFields(pub, matches) ==
    IF matches = <<>> THEN pub
    ELSE assignFields(setField(pub, toLowerCase(Head(matches).field),
                               cleanField(Head(matches).value)),
                      Tail(matches))

\* parseEntry(entry): <<>> stands for null, <<pub>> for a publication
parseEntry(entry) ==
    LET firstLine == split(entry, "\n")[1]
        m == typeMatch(firstLine)
        pub == [k \in {K_type, K_key} |->
                    IF k = K_type THEN toLowerCase(m.type) ELSE m.key]
    IN  IF ~m.matched THEN <<>>
        ELSE <<assignFields(pub, fieldMatches(entry, 1))>>

\* content.split('@').filter(entry => entry.trim())
bibEntries(content) == SelectSeq(split(content, "@"), LAMBDA entry : trim(entry) # <<>>)

\* a variant of the forEach below that stops at the first entry parseEntry rejects
RECURSIVE parseEntriesAbort(_)
parseEntriesAbort(entries) ==
    IF entries = <<>> \/ parseEntry(Head(entries)) = <<>> THEN <<>>
    ELSE parseEntry(Head(entries)) \o parseEntriesAbort(Tail(entries))

\* entries.forEach(entry => { const pub = this.parseEntry(entry); if (pub) push })
RECURSIVE parseEntries(_)
parseEntries(entries) ==
    IF entries = <<>> THEN <<>>
    ELSE parseEntry(Head(entries)) \o parseEntries(Tail(entries))

parseBibtex(content) == sortByYear(parseEntries(bibEntries(content)))

----------------------------------------------------------------------------
(* TeachingParser: parseCSV, parseCSVLine *)

\* a variant of the loop body below in which a quote does not open a quoted span
csvStepNoQuotes(st, char) ==
    IF char = "\"" THEN st
    ELSE IF char = ","
         THEN [st EXCEPT !.values = Append(st.values, st.current), !.current = <<>>]
         ELSE [st EXCEPT !.current = Append(st.current, char)]

\* the body of the for loop of parseCSVLine on the locals values, current, inQuotes
csvStep(st, char) ==
    IF char = "\"" THEN [st EXCEPT !.inQuotes = ~st.inQuotes]
    ELSE IF char = "," /\ ~st.inQuotes
         THEN [st EXCEPT !.values = Append(st.values, st.current), !.current = <<>>]
         ELSE [st EXCEPT !.current = Append(st.current, char)]

csvStart == [values |-> <<>>, current |-> <<>>, inQuotes |-> FALSE]

RECURSIVE csvScan(_, _, _)
csvScan(line, i, st) ==
    IF i > Len(line) THEN st ELSE csvScan(line, i + 1, csvStep(st, line[i]))

\* values.push(current); return values
csvFinish(st) == Append(st.values, st.current)

parseCSVLine(line) == csvFinish(csvScan(line, 1, csvStart))

\* headers.forEach((header, index) => activity[header] = values[index] ? ... : '')
\* a header name that occurs twice keeps the value of its last column
csvActivity(headers, values) ==
    [h \in Range(headers) |->
        LET index == CHOOSE i \in DOMAIN headers :
                        /\ headers[i] = h
                        /\ \A k \in DOMAIN headers : headers[k] = h => k <= i
        IN  IF index <= Len(values) /\ values[index] # <<>>
            THEN trim(values[index]) ELSE <<>>]

\* a variant of the loop body below that keeps a short line, padded with ''
csvLinePadded(headers, line) ==
    <<csvActivity(headers, parseCSVLine(line))>>

\* the body of the loop over the data lines: <<>> when the line is skipped
csvLine(headers, line) ==
    LET values == parseCSVLine(line)
    IN  IF Len(values) >= Len(headers) THEN <<csvActivity(headers, values)>> ELSE <<>>

csvHeaders(lines) ==
    LET names == split(lines[1], ",") IN [i \in DOMAIN names |-> trim(names[i])]

RECURSIVE csvLines(_, _, _)
csvLines(headers, lines, i) ==
    IF i > Len(lines) THEN <<>>
    ELSE csvLine(headers, lines[i]) \o csvLines(headers, lines, i + 1)

\* the activities array before the sort
csvActivities(content) ==
    LET lines == split(trim(content), "\n")
    IN  IF Len(lines) < 2 THEN <<>> ELSE csvLines(csvHeaders(lines), lines, 2)

parseCSV(content) == sortByYear(csvActivities(content))

----------------------------------------------------------------------------
(* BibtexParser: filtering and rendering *)

T_inproceedings == <<"i", "n", "p", "r", "o", "c", "e", "e", "d", "i", "n", "g", "s">>

T_article == <<"a", "r", "t", "i", "c", "l", "e">>

T_book == <<"b", "o", "o", "k">>

T_incollection == <<"i", "n", "c", "o", "l", "l", "e", "c", "t", "i", "o", "n">>

T_techreport == <<"t", "e", "c", "h", "r", "e", "p", "o", "r", "t">>

T_misc == <<"m", "i", "s", "c">>

\* the allTypes array of createHelper
allTypes == <<T_inproceedings, T_article, T_book, T_incollection, T_techreport, T_misc>>

\* a variant of getVisiblePublications that filters even when no filter is active
getVisiblePublicationsAlwaysFilter(pubs, filters) ==
    SelectSeq(pubs, LAMBDA pub : pub[K_type] \in filters)

getVisiblePublications(pubs, filters) ==
    IF Cardinality(filters) = 0 THEN pubs
    ELSE SelectSeq(pubs, LAMBDA pub : pub[K_type] \in filters)

\* a variant of typesToShow that shows a badge for every known type
typesToShowAll(pubs) == Range(allTypes)

\* typesToShow: allTypes.filter(({ type }) => existingTypes.includes(type))
typesToShow(pubs) ==
    LET existingTypes == {pubs[i][K_type] : i \in DOMAIN pubs}
    IN  {type \in Range(allTypes) : type \in existingTypes}

\* createHelper(): the clickable badges (their data-type), which of them are drawn
\* active, and the count line
createHelper(pubs, filters) ==
    IF typesToShow(pubs) = {} THEN [badges |-> {}, active |-> {}, showing |-> <<>>]
    ELSE [badges |-> typesToShow(pubs),
          active |-> typesToShow(pubs) \cap filters,
          showing |-> <<Len(getVisiblePublications(pubs, filters)), Len(pubs)>>]

\* the publications-list element built by renderPublications
publicationsList(pubs, filters) ==
    IF Len(pubs) = 0 THEN [text |-> "No publications found.", items |-> <<>>]
    ELSE IF Len(getVisiblePublications(pubs, filters)) = 0
         THEN [text |-> "No publications match the selected filters.", items |-> <<>>]
         ELSE [text |-> "", items |-> getVisiblePublications(pubs, filters)]

\* renderPublications(): nothing without the container; else the helper and the
\* list replace the ones shown before
renderPublications(container, pubs, filters, dom) ==
    IF ~container THEN dom
    ELSE [dom EXCEPT !.helper = <<createHelper(pubs, filters)>>,
                     !.list = <<publicationsList(pubs, filters)>>]

\* renderError(): appends one alert to the container, if there is one
renderError(container, dom) ==
    IF container THEN [dom EXCEPT !.warnings = @ + 1] ELSE dom

\* a variant of the toggle that only ever adds the type
toggledAddOnly(filters, type) == filters \cup {type}

\* the Set update of toggleFilter
toggled(filters, type) ==
    IF type \in filters THEN filters \ {type} ELSE filters \cup {type}

----------------------------------------------------------------------------
(* TeachingParser: rendering *)

renderTeachingActivities(container, acts, dom) ==
    IF ~container THEN dom
    ELSE [dom EXCEPT !.list =
            <<IF Len(acts) = 0
              THEN [text |-> "No teaching activities found.", items |-> <<>>]
              ELSE [text |-> "", items |-> acts]>>]

----------------------------------------------------------------------------
(* The texts the servers and the callers provide *)

MaxPageEntries == 2

MaxEntries == 3

MaxLines == 3

\* every concatenation of at most n of the pieces
RECURSIVE Concats(_, _)
Concats(pieces, n) ==
    IF n = 0 THEN {<<>>}
    ELSE LET shorter == Concats(pieces, n - 1)
         IN  shorter \cup {t \o p : t \in shorter, p \in pieces}

B_article ==
    <<"@", "a", "r", "t", "i", "c", "l", "e", "{", "k", "1", ",", " ", "y", "e",
      "a", "r", " ", "=", " ", "{", "2", "0", "1", "9", "}", ",", " ", "t", "i",
      "t", "l", "e", " ", "=", " ", "{", "H", "e", "l", "l", "o", "}", "}", "\n">>

B_misc ==
    <<"@", "M", "i", "s", "c", "{", "k", "2", ",", "\n", " ", " ", "y", "e", "a",
      "r", "=", "{", "2", "0", "1", "9", "}", "\n", "}", "\n">>

B_techreport ==
    <<"@", "t", "e", "c", "h", "r", "e", "p", "o", "r", "t", "{", "k", "3", ",",
      "\n", " ", "t", "y", "p", "e", " ", "=", " ", "{", "A", "r", "t", "i", "c",
      "l", "e", "}", ",", "\n", " ", "Y", "E", "A", "R", " ", "=", " ", "{", "2",
      "0", "2", "1", "}", "}", "\n">>

B_garbage == <<"@", "g", "a", "r", "b", "a", "g", "e", " ", "h", "e", "r", "e", "\n">>

B_book == <<"@", "b", "o", "o", "k", "{", "k", "5", "}", "\n">>

B_keyfield ==
    <<"@", "m", "i", "s", "c", "{", "k", "6", ",", " ", "k", "e", "y", " ", "=",
      " ", "{", "z", "z", "}", ",", " ", "y", "e", "a", "r", " ", "=", " ", "{",
      "n", ".", "d", ".", "}", "}", "\n">>

B_nested ==
    <<"@", "i", "n", "p", "r", "o", "c", "e", "e", "d", "i", "n", "g", "s", "{",
      "k", "8", ",", "\n", " ", "t", "i", "t", "l", "e", " ", "=", " ", "{", "A",
      " ", "{", "B", "}", " ", "C", "}", ",", "\n", " ", "y", "e", "a", "r", " ",
      "=", " ", "{", "2", "0", "2", "0", "}", "\n", "}", "\n">>

B_phdthesis ==
    <<"@", "P", "h", "d", "T", "h", "e", "s", "i", "s", "{", "k", "9", ",", " ",
      "y", "e", "a", "r", "=", "{", "2", "0", "2", "0", "}", "}">>

BibPieces ==
    {B_article, B_misc, B_techreport, B_garbage, B_book, B_keyfield, B_nested, B_phdthesis}

BibTexts == Concats(BibPieces, MaxEntries)

EntryTexts == UNION {Range(split(t, "@")) : t \in Concats(BibPieces, 1)}

H_yearname == <<"y", "e", "a", "r", ",", "n", "a", "m", "e", "\n">>

H_spaced ==
    <<" ", "n", "a", "m", "e", " ", ",", " ", "y", "e", "a", "r", " ", ",", "p",
      "l", "a", "c", "e", "\n">>

L_2020A == <<"2", "0", "2", "0", ",", "A", "\n">>

L_2019B == <<"2", "0", "1", "9", ",", "B", "\n">>

L_2021C == <<"2", "0", "2", "1", ",", "C", "\n">>

L_quoted == <<"2", "0", "2", "0", ",", "\"", "A", ",", " ", "B", "\"", "\n">>

L_short == <<"2", "0", "2", "0", "\n">>

L_extra == <<"x", ",", " ", "2", "0", "1", "9", " ", ",", "y", ",", "z", "\n">>

L_open == <<"\"", "2", "0", "2", "1", ",", "D", "\n">>

CsvLinePieces == {L_2020A, L_2019B, L_2021C, L_quoted, L_short, L_extra, L_open}

CsvTexts ==
    {h \o t : h \in {<<>>, H_yearname, H_spaced}, t \in Concats(CsvLinePieces, MaxLines)}

L_doubled ==
    <<"1", ",", "\"", "x", " ", "\"", "\"", "y", "\"", "\"", ",", " ", "z", "\"",
      ",", "w">>

L_commas == <<",", "\"", "\"", ",", ",">>

LineTexts ==
    UNION {Range(split(t, "\n")) : t \in Concats(CsvLinePieces \cup {H_spaced}, 1)}
        \cup {L_doubled, L_commas}

\* what the page of the site can receive for extras/pub.bib and extras/courses.csv
PageBibTexts == Concats({B_article, B_misc, B_techreport, B_phdthesis}, MaxPageEntries)

PageCsvTexts == {H_yearname \o L_2020A \o L_2019B \o L_2021C, H_yearname \o L_short}

\* the body of the server's answer for a file that does not exist
NotFoundTexts == {<<"4", "0", "4", ":", " ", "N", "o", "t", " ", "F", "o", "u", "n", "d">>}

----------------------------------------------------------------------------
(* The page: both scripts run their pipeline on DOMContentLoaded *)

emptyDom == [helper |-> <<>>, list |-> <<>>, warnings |-> 0]

emptyTeachDom == [list |-> <<>>, warnings |-> 0]

NoResponse == [ok |-> FALSE, body |-> <<>>]

PubInit ==
    /\ pubPc = "start"
    /\ pubContainer \in BOOLEAN
    /\ pubFetch = [state |-> "none", response |-> NoResponse]
    /\ bibtexContent = <<>>
    /\ publications = <<>>
    /\ activeFilters = {}
    /\ pubCalls = [fetch |-> 0, parseBibtex |-> 0]
    /\ pubDom = emptyDom

TeachInit ==
    /\ teachPc = "start"
    /\ teachContainer \in BOOLEAN
    /\ teachFetch = [state |-> "none", response |-> NoResponse]
    /\ csvContent = <<>>
    /\ activities = <<>>
    /\ teachCalls = [fetch |-> 0, parseCSV |-> 0]
    /\ teachDom = emptyTeachDom

NoCall ==
    /\ fn = "none"
    /\ arg = <<>>
    /\ frame = [pc |-> "none", i |-> 1, st |-> csvStart]
    /\ ret = <<>>

Init == PubInit /\ TeachInit /\ NoCall

\* new BibtexParser(); loadPublications() up to its first await
loadPublications ==
    /\ pubPc = "start"
    /\ pubPc' = "fetching"
    /\ pubFetch' = [pubFetch EXCEPT !.state = "pending"]
    /\ pubCalls' = [pubCalls EXCEPT !.fetch = @ + 1]
    /\ UNCHANGED <<pubContainer, bibtexContent, publications, activeFilters, pubDom>>
    /\ UNCHANGED <<teachVars, callVars>>

\* fetch rejects (network error): the catch block logs and calls renderError
pubFetchRejected ==
    /\ pubPc = "fetching"
    /\ pubPc' = "done"
    /\ pubFetch' = [pubFetch EXCEPT !.state = "rejected"]
    /\ pubDom' = renderError(pubContainer, pubDom)
    /\ UNCHANGED <<pubContainer, bibtexContent, publications, activeFilters, pubCalls>>
    /\ UNCHANGED <<teachVars, callVars>>

\* fetch resolves with the file (200) or with the server's answer for a missing
\* file (404): loadPublications goes on to await response.text() in both cases
pubFetchResolved ==
    /\ pubPc = "fetching"
    /\ \E response \in [ok : {TRUE}, body : PageBibTexts]
                       \cup [ok : {FALSE}, body : NotFoundTexts] :
          pubFetch' = [state |-> "resolved", response |-> response]
    /\ pubPc' = "reading"
    /\ UNCHANGED <<pubContainer, bibtexContent, publications, activeFilters, pubCalls,
                   pubDom>>
    /\ UNCHANGED <<teachVars, callVars>>

\* response.text() rejects (the connection breaks while the body is read)
pubTextRejected ==
    /\ pubPc = "reading"
    /\ pubPc' = "done"
    /\ pubFetch' = [pubFetch EXCEPT !.state = "aborted"]
    /\ pubDom' = renderError(pubContainer, pubDom)
    /\ UNCHANGED <<pubContainer, bibtexContent, publications, activeFilters, pubCalls>>
    /\ UNCHANGED <<teachVars, callVars>>

\* response.text() resolves: parseBibtex, then renderPublications
pubTextResolved ==
    /\ pubPc = "reading"
    /\ pubPc' = "done"
    /\ bibtexContent' = pubFetch.response.body
    /\ publications' = parseBibtex(pubFetch.response.body)
    /\ pubCalls' = [pubCalls EXCEPT !.parseBibtex = @ + 1]
    /\ pubDom' = renderPublications(pubContainer, parseBibtex(pubFetch.response.body),
                                    activeFilters, pubDom)
    /\ UNCHANGED <<pubContainer, pubFetch, activeFilters>>
    /\ UNCHANGED <<teachVars, callVars>>

\* a variant of toggleFilter that narrows this.publications to the visible ones
toggleFilterNarrowing(type) ==
    /\ activeFilters' = toggled(activeFilters, type)
    /\ publications' = getVisiblePublications(publications, toggled(activeFilters, type))
    /\ pubDom' = renderPublications(pubContainer, publications',
                                    toggled(activeFilters, type), pubDom)
    /\ UNCHANGED <<pubPc, pubContainer, pubFetch, bibtexContent, pubCalls>>

\* toggleFilter(type): update the Set, then renderPublications()
toggleFilter(type) ==
    /\ activeFilters' = toggled(activeFilters, type)
    /\ pubDom' = renderPublications(pubContainer, publications,
                                    toggled(activeFilters, type), pubDom)
    /\ UNCHANGED <<pubPc, pubContainer, pubFetch, bibtexContent, publications, pubCalls>>

\* a click on one of the legend badges the page shows
badgeClicked ==
    /\ pubDom.helper # <<>>
    /\ \E type \in pubDom.helper[1].badges : toggleFilter(type)
    /\ UNCHANGED <<teachVars, callVars>>

\* new TeachingParser(); loadTeachingActivities() up to its first await
loadTeachingActivities ==
    /\ teachPc = "start"
    /\ teachPc' = "fetching"
    /\ teachFetch' = [teachFetch EXCEPT !.state = "pending"]
    /\ teachCalls' = [teachCalls EXCEPT !.fetch = @ + 1]
    /\ UNCHANGED <<teachContainer, csvContent, activities, teachDom>>
    /\ UNCHANGED <<pubVars, callVars>>

teachFetchRejected ==
    /\ teachPc = "fetching"
    /\ teachPc' = "done"
    /\ teachFetch' = [teachFetch EXCEPT !.state = "rejected"]
    /\ teachDom' = renderError(teachContainer, teachDom)
    /\ UNCHANGED <<teachContainer, csvContent, activities, teachCalls>>
    /\ UNCHANGED <<pubVars, callVars>>

teachFetchResolved ==
    /\ teachPc = "fetching"
    /\ \E response \in [ok : {TRUE}, body : PageCsvTexts]
                       \cup [ok : {FALSE}, body : NotFoundTexts] :
          teachFetch' = [state |-> "resolved", response |-> response]
    /\ teachPc' = "reading"
    /\ UNCHANGED <<teachContainer, csvContent, activities, teachCalls, teachDom>>
    /\ UNCHANGED <<pubVars, callVars>>

teachTextRejected ==
    /\ teachPc = "reading"
    /\ teachPc' = "done"
    /\ teachFetch' = [teachFetch EXCEPT !.state = "aborted"]
    /\ teachDom' = renderError(teachContainer, teachDom)
    /\ UNCHANGED <<teachContainer, csvContent, activities, teachCalls>>
    /\ UNCHANGED <<pubVars, callVars>>

teachTextResolved ==
    /\ teachPc = "reading"
    /\ teachPc' = "done"
    /\ csvContent' = teachFetch.response.body
    /\ activities' = parseCSV(teachFetch.response.body)
    /\ teachCalls' = [teachCalls EXCEPT !.parseCSV = @ + 1]
    /\ teachDom' = renderTeachingActivities(teachContainer,
                                            parseCSV(teachFetch.response.body), teachDom)
    /\ UNCHANGED <<teachContainer, teachFetch>>
    /\ UNCHANGED <<pubVars, callVars>>

Next ==
    \/ loadPublications
    \/ pubFetchRejected
    \/ pubFetchResolved
    \/ pubTextRejected
    \/ pubTextResolved
    \/ badgeClicked
    \/ loadTeachingActivities
    \/ teachFetchRejected
    \/ teachFetchResolved
    \/ teachTextRejected
    \/ teachTextResolved

Spec == Init /\ [][Next]_vars

----------------------------------------------------------------------------
(* One call of a parsing function on one text *)

InitParsers ==
    /\ PubInit /\ pubContainer
    /\ TeachInit /\ teachContainer
    /\ \/ fn = "parseBibtex" /\ arg \in BibTexts
       \/ fn = "parseEntry" /\ arg \in EntryTexts
       \/ fn = "parseCSV" /\ arg \in CsvTexts
       \/ fn = "parseCSVLine" /\ arg \in LineTexts
    /\ frame = [pc |-> "called", i |-> 1, st |-> csvStart]
    /\ ret = <<>>

returnParseBibtex ==
    /\ fn = "parseBibtex" /\ frame.pc = "called"
    /\ ret' = parseBibtex(arg)
    /\ frame' = [frame EXCEPT !.pc = "returned"]
    /\ UNCHANGED <<fn, arg>>
    /\ UNCHANGED <<pubVars, teachVars>>

returnParseEntry ==
    /\ fn = "parseEntry" /\ frame.pc = "called"
    /\ ret' = parseEntry(arg)
    /\ frame' = [frame EXCEPT !.pc = "returned"]
    /\ UNCHANGED <<fn, arg>>
    /\ UNCHANGED <<pubVars, teachVars>>

returnParseCSV ==
    /\ fn = "parseCSV" /\ frame.pc = "called"
    /\ ret' = parseCSV(arg)
    /\ frame' = [frame EXCEPT !.pc = "returned"]
    /\ UNCHANGED <<fn, arg>>
    /\ UNCHANGED <<pubVars, teachVars>>

\* one iteration of the for loop of parseCSVLine
stepParseCSVLine ==
    /\ fn = "parseCSVLine" /\ frame.pc = "called"
    /\ frame.i <= Len(arg)
    /\ frame' = [frame EXCEPT !.st = csvStep(frame.st, arg[frame.i]), !.i = @ + 1]
    /\ UNCHANGED <<fn, arg, ret>>
    /\ UNCHANGED <<pubVars, teachVars>>

\* the loop of parseCSVLine is over: values.push(current); return values
returnParseCSVLine ==
    /\ fn = "parseCSVLine" /\ frame.pc = "called"
    /\ frame.i > Len(arg)
    /\ ret' = csvFinish(frame.st)
    /\ frame' = [frame EXCEPT !.pc = "returned"]
    /\ UNCHANGED <<fn, arg>>
    /\ UNCHANGED <<pubVars, teachVars>>

NextParsers ==
    \/ returnParseBibtex
    \/ returnParseEntry
    \/ returnParseCSV
    \/ stepParseCSVLine
    \/ returnParseCSVLine

SpecParsers == InitParsers /\ [][NextParsers]_vars

----------------------------------------------------------------------------
(* Properties of the page (specification Spec) *)

T_phdthesis == <<"p", "h", "d", "t", "h", "e", "s", "i", "s">>

PubTypes == {publications[i][K_type] : i \in DOMAIN publications}

\* C1: for every reachable activeFilters F and every type t, known to the legend or
\* not, in F or not, toggling t twice in a row gives F back.
ToggleTwiceRestores ==
    \A type \in Range(allTypes) \cup {T_phdthesis} :
        /\ toggled(toggled(activeFilters, type), type) = activeFilters
        /\ (type \in toggled(activeFilters, type)) = (type \notin activeFilters)

\* C1 witness: after clicks, a state where one shown type is in the filter set and
\* another shown type is not, so both directions of the toggle are exercised.
ToggleBothWaysReached ==
    /\ pubPc = "done"
    /\ pubDom.helper # <<>>
    /\ \E t, u \in pubDom.helper[1].badges : t \in activeFilters /\ u \notin activeFilters

\* C2: getVisiblePublications is the whole collection, which is in non-increasing
\* year order, when activeFilters is empty; otherwise it is exactly the records whose
\* type is in activeFilters, in collection order. The list on the page shows it.
VisibleIsFilteredCollection ==
    LET visible == getVisiblePublications(publications, activeFilters)
        keep == {i \in DOMAIN publications : publications[i][K_type] \in activeFilters}
        nth(k) == CHOOSE i \in keep : Cardinality({j \in keep : j < i}) = k - 1
    IN  /\ \A i, j \in DOMAIN publications :
              i < j => numericYear(publications[i]) >= numericYear(publications[j])
        /\ activeFilters = {} => visible = publications
        /\ activeFilters # {} =>
              /\ Len(visible) = Cardinality(keep)
              /\ \A k \in DOMAIN visible : visible[k] = publications[nth(k)]
        /\ (pubDom.list # <<>> /\ publications # <<>>) => pubDom.list[1].items = visible

\* C2 witness: a filter is active and hides some but not all of the publications.
FilterHidesSomeReached ==
    /\ pubPc = "done"
    /\ activeFilters # {}
    /\ pubDom.list # <<>>
    /\ Len(pubDom.list[1].items) > 0
    /\ Len(pubDom.list[1].items) < Len(publications)

pubFetchFailed ==
    \/ pubFetch.state \in {"rejected", "aborted"}
    \/ pubFetch.state = "resolved" /\ ~pubFetch.response.ok

teachFetchFailed ==
    \/ teachFetch.state \in {"rejected", "aborted"}
    \/ teachFetch.state = "resolved" /\ ~teachFetch.response.ok

\* C3: in either pipeline, when the fetch of the source file has failed (network
\* error, or the file is missing on the server), the pipeline ends with exactly one
\* warning on the page, no list rendered from the response and a single fetch.
\* Stated for a page that has the pipeline's container element, where a warning can
\* be shown at all.
FetchFailureShowsOneWarning ==
    /\ (pubPc = "done" /\ pubContainer /\ pubFetchFailed) =>
          /\ pubDom.warnings = 1
          /\ pubDom.list = <<>>
          /\ pubCalls.fetch = 1
    /\ (teachPc = "done" /\ teachContainer /\ teachFetchFailed) =>
          /\ teachDom.warnings = 1
          /\ teachDom.list = <<>>
          /\ teachCalls.fetch = 1

\* C9: once loadPublications has completed, no step (the only ones left for the
\* publications are toggleFilter calls) changes the parsed collection, fetches or
\* parses again; of the parser's state only activeFilters changes.
TogglesLeaveCollectionAlone ==
    [][pubPc = "done" =>
          /\ publications' = publications
          /\ bibtexContent' = bibtexContent
          /\ pubCalls' = pubCalls
          /\ pubFetch' = pubFetch
          /\ pubPc' = "done"]_vars

\* C9 witness: toggles have acted on a parsed collection of several records.
ToggledAfterLoadReached ==
    /\ pubPc = "done"
    /\ pubCalls.parseBibtex = 1
    /\ Len(publications) >= 2
    /\ Cardinality(activeFilters) >= 2

\* C10: activeFilters only ever holds known types that occur among the parsed
\* publications; hence a non-empty collection always has a visible record and the
\* 'No publications match the selected filters.' text is never shown.
FiltersAreShownTypes ==
    /\ activeFilters \subseteq Range(allTypes) \cap PubTypes
    /\ publications # <<>> => getVisiblePublications(publications, activeFilters) # <<>>
    /\ pubDom.list # <<>> =>
          pubDom.list[1].text # "No publications match the selected filters."

\* C10 witness: a filter is active while the collection also holds a record of a
\* type that is not selected and one of a type the legend does not know.
FilterWithUnknownTypeReached ==
    /\ pubPc = "done"
    /\ activeFilters # {}
    /\ PubTypes \ Range(allTypes) # {}
    /\ pubDom.list # <<>>
    /\ pubDom.list[1].items # <<>>

----------------------------------------------------------------------------
(* Properties of the parsing functions (specification SpecParsers) *)

returned(name) == fn = name /\ frame.pc = "returned"

\* each record of seq paired with its numeric year
Dated(seq) == [i \in DOMAIN seq |-> [year |-> numericYear(seq[i]), record |-> seq[i]]]

\* the dated records of year y, in order
WithYear(dated, y) == SelectSeq(dated, LAMBDA d : d.year = y)

\* the records both parsers hand to the sort
KeptRecords ==
    IF fn = "parseBibtex" THEN parseEntries(bibEntries(arg)) ELSE csvActivities(arg)

\* C4: what parseCSV and parseBibtex return is a permutation of the kept records,
\* in non-increasing numeric year (missing or unparseable year counts as 0), and
\* records of equal numeric year keep the order they have in the input.
SortedByYearStable ==
    (returned("parseBibtex") \/ returned("parseCSV")) =>
        LET result == Dated(ret)
            kept == Dated(KeptRecords)
        IN  /\ Len(result) = Len(kept)
            /\ \A i, j \in DOMAIN result : i < j => result[i].year >= result[j].year
            /\ \A k \in DOMAIN kept :
                  WithYear(result, kept[k].year) = WithYear(kept, kept[k].year)

\* C4 witness: the sort moved records, two different records have the same numeric
\* year, and one record has no usable year.
SortReorderedWithTiesReached ==
    /\ returned("parseBibtex") \/ returned("parseCSV")
    /\ ret # KeptRecords
    /\ \E i, j \in DOMAIN ret :
          i < j /\ ret[i] # ret[j] /\ numericYear(ret[i]) = numericYear(ret[j])
    /\ \E i \in DOMAIN ret : K_year \notin DOMAIN ret[i] \/ parseInt(ret[i][K_year]).nan

RECURSIVE JoinWithComma(_)
JoinWithComma(fields) ==
    IF Len(fields) = 1 THEN fields[1]
    ELSE fields[1] \o <<",">> \o JoinWithComma(Tail(fields))

QuotesBefore(line, k) == Cardinality({q \in 1..(k - 1) : line[q] = "\""})

Example_line == <<"2", "0", "2", "0", ",", "\"", "A", ",", " ", "B", "\"">>

\* C5: while parseCSVLine scans a line and when it returns: inQuotes is on exactly
\* after an odd number of quotes; no field holds a quote; the fields, joined by
\* commas, are the scanned text without its quotes (a comma inside a quoted span
\* stays in its field, one outside ends the field); and there is one field more than
\* commas outside quoted spans. `2020,"A, B"` gives the fields `2020` and `A, B`.
CsvLineFields ==
    fn = "parseCSVLine" =>
        LET seen == SubSeq(arg, 1, frame.i - 1)
            outside == {k \in DOMAIN seen :
                            seen[k] = "," /\ QuotesBefore(arg, k) % 2 = 0}
            fields == Append(frame.st.values, frame.st.current)
        IN  /\ frame.st.inQuotes = (QuotesBefore(arg, frame.i) % 2 = 1)
            /\ \A f \in DOMAIN fields : "\"" \notin Range(fields[f])
            /\ JoinWithComma(fields) = SelectSeq(seen, LAMBDA c : c # "\"")
            /\ Len(fields) = 1 + Cardinality(outside)
            /\ frame.pc = "returned" => frame.i = Len(arg) + 1 /\ ret = fields
            /\ (frame.pc = "returned" /\ arg = Example_line) =>
                  ret = <<<<"2", "0", "2", "0">>, <<"A", ",", " ", "B">>>>

\* C5 witness: parseCSVLine has returned for a line with a comma inside a quoted
\* span and a comma outside of it.
QuotedCommaLineReached ==
    /\ returned("parseCSVLine")
    /\ \E k, m \in DOMAIN arg :
          /\ arg[k] = "," /\ QuotesBefore(arg, k) % 2 = 1
          /\ arg[m] = "," /\ QuotesBefore(arg, m) % 2 = 0

CsvLinesOf(content) == split(trim(content), "\n")

\* the record the claim expects for data line i: header name -> trimmed field of
\* the column with that name (the last one when the name occurs twice)
ExpectedActivity(headers, fields) ==
    [h \in Range(headers) |->
        trim(fields[CHOOSE c \in DOMAIN headers :
                        headers[c] = h /\ \A d \in DOMAIN headers : headers[d] = h => d <= c])]

\* C6: parseCSV returns one record for each data line that splits into at least as
\* many fields as the header has names and none for a shorter line, wherever the
\* short line stands; fields beyond the header count are ignored and every record
\* has exactly the header names as its keys.
ShortLinesDropped ==
    returned("parseCSV") =>
        LET lines == CsvLinesOf(arg)
            headers == csvHeaders(lines)
            fields(i) == parseCSVLine(lines[i])
            kept == {i \in 2..Len(lines) : Len(fields(i)) >= Len(headers)}
            expected(i) == ExpectedActivity(headers, fields(i))
        IN  IF Len(lines) < 2 THEN ret = <<>>
            ELSE /\ Len(ret) = Cardinality(kept)
                 /\ \A r \in DOMAIN ret : DOMAIN ret[r] = Range(headers)
                 /\ \A i \in kept :
                       Cardinality({r \in DOMAIN ret : ret[r] = expected(i)})
                           = Cardinality({j \in kept : expected(j) = expected(i)})

\* C6 witness: a short line stood before a line that was kept, and a kept line had
\* more fields than the header has names.
ShortLineBeforeKeptReached ==
    /\ returned("parseCSV")
    /\ LET lines == CsvLinesOf(arg)
           n == Len(csvHeaders(lines))
       IN  /\ \E i, j \in 2..Len(lines) :
                 /\ i < j
                 /\ Len(parseCSVLine(lines[i])) < n
                 /\ Len(parseCSVLine(lines[j])) >= n
           /\ \E i \in 2..Len(lines) : Len(parseCSVLine(lines[i])) > n
    /\ ret # <<>>

WellFormed(chunk) == typeMatch(split(chunk, "\n")[1]).matched

\* the text made of the chunks other than chunk i, each after its '@'
RECURSIVE TextWithout(_, _, _)
TextWithout(chunks, i, k) ==
    IF k > Len(chunks) THEN <<>>
    ELSE (IF k = i THEN <<>> ELSE <<"@">> \o chunks[k]) \o TextWithout(chunks, i, k + 1)

\* C7: parseBibtex returns one record per chunk whose first line matches
\* <identifier>{<key>, the record parseEntry gives for that chunk, and none for the
\* other chunks: the result is the one of the same text without the malformed chunk.
MalformedChunkDropped ==
    returned("parseBibtex") =>
        LET chunks == bibEntries(arg)
            good == {i \in DOMAIN chunks : WellFormed(chunks[i])}
        IN  /\ Len(ret) = Cardinality(good)
            /\ \A i \in good : \E r \in DOMAIN ret : <<ret[r]>> = parseEntry(chunks[i])
            /\ \A i \in DOMAIN chunks \ good : ret = parseBibtex(TextWithout(chunks, i, 1))

\* C7 witness: a malformed chunk stood before a well-formed one, whose record is
\* in the result.
MalformedBeforeGoodReached ==
    /\ returned("parseBibtex")
    /\ ret # <<>>
    /\ LET chunks == bibEntries(arg)
       IN  \E i, j \in DOMAIN chunks :
              i < j /\ ~WellFormed(chunks[i]) /\ WellFormed(chunks[j])

\* C8: a record returned by parseEntry has as type the lowercased identifier of the
\* entry's first line and as key the key of that line, whatever the fields of the
\* entry's body are.
TypeAndKeyFromFirstLine ==
    (returned("parseEntry") /\ ret # <<>>) =>
        LET m == typeMatch(split(arg, "\n")[1])
        IN  /\ ret[1][K_type] = toLowerCase(m.type)
            /\ ret[1][K_key] = m.key

====
